---- MODULE Spec2Model ----
(***************************************************************************)
(* Model of src/app/api/screenshot/route.ts: the POST handler of the       *)
(* screenshot endpoint, its zod schema, the request-interception handler   *)
(* and the puppeteer collaborator it drives (sessions, pages, the network  *)
(* requests a navigation issues, timers).                                  *)
(*                                                                         *)
(* One action is one run of the handler between two awaits: the awaited    *)
(* promise settles, the synchronous code after it runs, and the next       *)
(* awaited call is issued.  A rejected promise runs the catch block in the *)
(* same action.                                                            *)
(***************************************************************************)
EXTENDS Integers, Sequences, FiniteSets, TLC

VARIABLES
  body,           \* body[r]: the raw HTTP body of request r
  pc,             \* pc[r]: the await the handler of r is suspended at
  validated,      \* validated[r]: the result of screenshotSchema.parse
  browser,        \* browser[r]: the session r launched (0: none)
  screenshotData, \* screenshotData[r]: the captured bytes
  calls,          \* calls[r]: the collaborator calls of r and how they settled
  responses,      \* responses[r]: the HTTP responses returned for r
  logs,           \* logs[r]: what console.error printed for r
  sessions,       \* the browser sessions ever launched, in launch order
  intercepting,   \* intercepting[r]: request interception is on for r's page
  handlers,       \* handlers[r]: number of "request" listeners on r's page
  paused,         \* paused[r]: intercepted requests waiting for a decision
  decisions,      \* decisions[r]: what the listener did with each request
  passed,         \* passed[r]: requests that went out without interception
  timer,          \* timer[r]: ms until the pending setTimeout is due (-1: none)
  waited          \* waited[r]: ms since the pending setTimeout was armed

vars == <<body, pc, validated, browser, screenshotData, calls, responses, logs,
          sessions, intercepting, handlers, paused, decisions, passed, timer, waited>>

(***************************************************************************)
(* Bounds of the model.                                                    *)
(***************************************************************************)
NumReqs == 2     \* requests handled concurrently
MaxJitter == 1   \* how far (ms) one step of the clock may run past a due timer

Reqs == 1..NumReqs

(***************************************************************************)
(* JSON values, tagged with their JavaScript type.                         *)
(***************************************************************************)
Undef == [t |-> "undefined"]
Null == [t |-> "null"]
Str(s) == [t |-> "string", s |-> s]
Num(n) == [t |-> "number", n |-> n]
Bool(b) == [t |-> "boolean", b |-> b]
Obj(o) == [t |-> "object", o |-> o]
Malformed == [t |-> "malformed"]   \* a body req.json() cannot parse

(***************************************************************************)
(* The schema's numbers (screenshotSchema, lines 10-15).                   *)
(***************************************************************************)
WidthMin == 100
WidthMax == 3840
HeightMin == 100
HeightMax == 2160
ZoomMin == 10
ZoomMax == 200
QualityMin == 0
QualityMax == 100
QualityDefault == 80
DelayMin == 0
DelayMax == 10000
DelayDefault == 0

Formats == {"png", "jpeg", "pdf"}

Ok(x) == [ok |-> TRUE, out |-> x]
Err == [ok |-> FALSE]

(***************************************************************************)
(* String.prototype.includes.                                              *)
(***************************************************************************)
includes(s, sub) ==
  \E i \in 1..(Len(s) - Len(sub) + 1) : SubSeq(s, i, i + Len(sub) - 1) = sub

(***************************************************************************)
(* z.string().url(): the string must parse as a URL (new URL(s)): a scheme *)
(* (a letter, then letters, digits, "+", "-", "."), a colon, and for the   *)
(* special schemes a non-empty host after the slashes.                     *)
(***************************************************************************)
Letters == {"a","b","c","d","e","f","g","h","i","j","k","l","m","n","o","p",
            "q","r","s","t","u","v","w","x","y","z"}
SchemeChars == Letters \cup {"0","1","2","3","4","5","6","7","8","9","+","-","."}
SpecialSchemes == {"http", "https", "ftp", "ws", "wss"}

CharAt(s, i) == SubSeq(s, i, i)

RECURSIVE stripSlashes(_)
stripSlashes(s) ==
  IF Len(s) > 0 /\ CharAt(s, 1) \in {"/", "\\"}
  THEN stripSlashes(SubSeq(s, 2, Len(s)))
  ELSE s

isScheme(s) ==
  /\ Len(s) > 0
  /\ CharAt(s, 1) \in Letters
  /\ \A i \in 2..Len(s) : CharAt(s, i) \in SchemeChars

isUrl(s) ==
  \E i \in 2..Len(s) :
    /\ CharAt(s, i) = ":"
    /\ isScheme(SubSeq(s, 1, i - 1))
    /\ SubSeq(s, 1, i - 1) \in SpecialSchemes =>
         LET rest == stripSlashes(SubSeq(s, i + 1, Len(s)))
         IN  /\ Len(rest) > 0
             /\ CharAt(rest, 1) \notin {"?", "#", ":"}

(***************************************************************************)
(* The zod combinators the schema uses.                                    *)
(***************************************************************************)
zStringUrl(v) ==
  IF v.t = "string" /\ isUrl(v.s) THEN Ok(v.s) ELSE Err

zBooleanDefault(v, d) ==
  IF v.t = "undefined" THEN Ok(d)
  ELSE IF v.t = "boolean" THEN Ok(v.b) ELSE Err

zNumberMinMax(v, lo, hi) ==
  IF v.t = "number" /\ v.n >= lo /\ v.n <= hi THEN Ok(v.n) ELSE Err

zNumberMinMaxDefault(v, lo, hi, d) ==
  IF v.t = "undefined" THEN Ok(d) ELSE zNumberMinMax(v, lo, hi)

zEnumDefault(v, opts, d) ==
  IF v.t = "undefined" THEN Ok(d)
  ELSE IF v.t = "string" /\ v.s \in opts THEN Ok(v.s) ELSE Err

zStringOptional(v) ==
  IF v.t = "undefined" THEN Ok(Undef)
  ELSE IF v.t = "string" THEN Ok(v) ELSE Err

(***************************************************************************)
(* screenshotSchema, field by field, and screenshotSchema.parse.  An       *)
(* object is a record of the eleven keys, an absent key being Undef;       *)
(* unknown keys are stripped by z.object and are not modelled.             *)
(***************************************************************************)
urlSchema(v) == zStringUrl(v)
fullSizeSchema(v) == zBooleanDefault(v, FALSE)
useProxySchema(v) == zBooleanDefault(v, FALSE)
noAdsSchema(v) == zBooleanDefault(v, FALSE)
\* Faulty variant: the maximum is off by one.
widthSchemaNoMax(v) == zNumberMinMax(v, WidthMin, WidthMax + 1)
widthSchema(v) == zNumberMinMax(v, WidthMin, WidthMax)
heightSchema(v) == zNumberMinMax(v, HeightMin, HeightMax)
zoomSchema(v) == zNumberMinMax(v, ZoomMin, ZoomMax)
formatSchema(v) == zEnumDefault(v, Formats, "png")
qualitySchema(v) == zNumberMinMaxDefault(v, QualityMin, QualityMax, QualityDefault)
delaySchema(v) == zNumberMinMaxDefault(v, DelayMin, DelayMax, DelayDefault)
cssSchema(v) == zStringOptional(v)

screenshotSchemaParse(data) ==
  IF data.t # "object" THEN Err
  ELSE
    LET o == data.o
        url == urlSchema(o.url)
        fullSize == fullSizeSchema(o.fullSize)
        useProxy == useProxySchema(o.useProxy)
        noAds == noAdsSchema(o.noAds)
        width == widthSchema(o.width)
        height == heightSchema(o.height)
        zoom == zoomSchema(o.zoom)
        format == formatSchema(o.format)
        quality == qualitySchema(o.quality)
        delay == delaySchema(o.delay)
        css == cssSchema(o.css)
    IN  IF /\ url.ok /\ fullSize.ok /\ useProxy.ok /\ noAds.ok /\ width.ok
           /\ height.ok /\ zoom.ok /\ format.ok /\ quality.ok /\ delay.ok
           /\ css.ok
        THEN Ok([url |-> url.out, fullSize |-> fullSize.out,
                 useProxy |-> useProxy.out, noAds |-> noAds.out,
                 width |-> width.out, height |-> height.out,
                 zoom |-> zoom.out, format |-> format.out,
                 quality |-> quality.out, delay |-> delay.out,
                 css |-> css.out])
        ELSE Err

(***************************************************************************)
(* Buffer.toString("base64").                                              *)
(***************************************************************************)
Base64Alphabet ==
  "ABCDEFGHIJKLMNOPQRSTUVWXYZabcdefghijklmnopqrstuvwxyz0123456789+/"

B64(i) == SubSeq(Base64Alphabet, i + 1, i + 1)

RECURSIVE toBase64(_)
toBase64(b) ==
  IF Len(b) = 0 THEN ""
  ELSE IF Len(b) = 1 THEN
    B64(b[1] \div 4) \o B64((b[1] % 4) * 16) \o "=="
  ELSE IF Len(b) = 2 THEN
    B64(b[1] \div 4) \o B64((b[1] % 4) * 16 + b[2] \div 16)
      \o B64((b[2] % 16) * 4) \o "="
  ELSE
    B64(b[1] \div 4) \o B64((b[1] % 4) * 16 + b[2] \div 16)
      \o B64((b[2] % 16) * 4 + b[3] \div 64) \o B64(b[3] % 64)
      \o toBase64(SubSeq(b, 4, Len(b)))

(***************************************************************************)
(* The data URI of the success response (line 100).                        *)
(***************************************************************************)
\* Faulty variant: every format is taken for an image.
mimeTypeImageOnly(format) == "image/" \o format
mimeType(format) ==
  IF format = "pdf" THEN "application/pdf" ELSE "image/" \o format

dataUri(format, data) ==
  "data:" \o mimeType(format) \o ";base64," \o toBase64(data)

FailureResponse ==
  [status |-> 500,
   body |-> [success |-> FALSE, error |-> "Failed to capture screenshot"]]

SuccessResponse(uri) ==
  [status |-> 200, body |-> [success |-> TRUE, screenshot |-> uri]]

(***************************************************************************)
(* The "request" listener (lines 40-53): what it does with one request.    *)
(***************************************************************************)
\* Faulty variant: the url is not looked at.
requestHandlerNoUrlCheck(request) ==
  IF \/ request.resourceType = "image"
     \/ request.resourceType = "media"
     \/ request.resourceType = "script"
  THEN <<"abort">>
  ELSE <<"continue">>

\* Faulty variant: navigation requests are let through.
requestHandlerSkipsDocument(request) ==
  IF /\ request.resourceType # "document"
     /\ \/ request.resourceType = "image"
        \/ request.resourceType = "media"
        \/ request.resourceType = "script"
        \/ includes(request.url, "ads")
        \/ includes(request.url, "analytics")
  THEN <<"abort">>
  ELSE <<"continue">>

requestHandler(request) ==
  IF \/ request.resourceType = "image"
     \/ request.resourceType = "media"
     \/ request.resourceType = "script"
     \/ includes(request.url, "ads")
     \/ includes(request.url, "analytics")
  THEN <<"abort">>
  ELSE <<"continue">>

(***************************************************************************)
(* The collaborator's events in calls[r].                                  *)
(***************************************************************************)
CallEv(op, args) == [ev |-> "call", op |-> op, args |-> args]
RetEv(op, ok) == [ev |-> IF ok THEN "resolved" ELSE "rejected", op |-> op]

(***************************************************************************)
(* The synchronous code between two awaits: the next awaited call and the  *)
(* await the handler suspends at.                                          *)
(***************************************************************************)
truthy(css) == css.t = "string" /\ css.s # ""

\* Faulty variant: the timer is armed one millisecond short.
timeoutMsOneShort(v) == v.delay - 1
timeoutMs(v) == v.delay

\* Faulty variant: quality is passed for png too.
screenshotOptionsAlwaysQuality(v) ==
  [fullPage |-> v.fullSize, type |-> v.format, quality |-> Num(v.quality)]
screenshotOptions(v) ==
  [fullPage |-> v.fullSize, type |-> v.format,
   quality |-> IF v.format = "jpeg" THEN Num(v.quality) ELSE Undef]

LaunchStep ==
  [pc |-> "await_launch", call |-> CallEv("launch", [headless |-> TRUE])]

NewPageStep == [pc |-> "await_newPage", call |-> CallEv("newPage", <<>>)]

ViewportStep(v) ==
  [pc |-> "await_setViewport",
   call |-> CallEv("setViewport",
                   [width |-> v.width, height |-> v.height,
                    deviceScaleFactor |-> [num |-> v.zoom, den |-> 100]])]

InterceptStep ==
  [pc |-> "await_setRequestInterception",
   call |-> CallEv("setRequestInterception", [value |-> TRUE])]

GotoStep(v) ==
  [pc |-> "await_goto",
   call |-> CallEv("goto", [url |-> v.url, waitUntil |-> "networkidle0"])]

CaptureStep(v) ==
  IF v.format = "pdf"
  THEN [pc |-> "await_pdf",
        call |-> CallEv("pdf", [format |-> "A4", printBackground |-> TRUE])]
  ELSE [pc |-> "await_screenshot",
        call |-> CallEv("screenshot", screenshotOptions(v))]

\* Faulty variant: the delay is not waited for.
DelayStepSkipped(v) == CaptureStep(v)
DelayStep(v) ==
  IF v.delay > 0
  THEN [pc |-> "await_delay",
        call |-> CallEv("setTimeout", [ms |-> timeoutMs(v)])]
  ELSE CaptureStep(v)

CssStep(v) ==
  IF truthy(v.css)
  THEN [pc |-> "await_evaluate",
        call |-> CallEv("evaluate", [css |-> v.css.s])]
  ELSE DelayStep(v)

AfterViewportStep(v) == IF v.noAds THEN InterceptStep ELSE GotoStep(v)

CloseStep == [pc |-> "await_close", call |-> CallEv("close", <<>>)]

\* The ms until the timer a step arms is due (-1: the step arms none).
Armed(step) ==
  IF step.pc = "await_delay" THEN step.call.args.ms ELSE -1

(***************************************************************************)
(* try / catch (lines 20, 102-105).                                        *)
(***************************************************************************)
\* Faulty variant: req.json() is awaited before the try.
InTryAfterJson(op) == op # "json"
InTry(op) == TRUE

\* op threw or rejected: with the try around it the catch block logs the
\* error and returns the failure response; without, the fault escapes.
Throw(r, evs, op) ==
  /\ calls' = [calls EXCEPT ![r] = @ \o evs]
  /\ logs' = [logs EXCEPT ![r] = IF InTry(op) THEN Append(@, op) ELSE @]
  /\ responses' = [responses EXCEPT
                     ![r] = IF InTry(op) THEN Append(@, FailureResponse) ELSE @]
  /\ pc' = [pc EXCEPT ![r] = IF InTry(op) THEN "done" ELSE "fault"]

\* op resolved: the handler runs on to the next await.
Proceed(r, op, step) ==
  /\ calls' = [calls EXCEPT ![r] = @ \o <<RetEv(op, TRUE), step.call>>]
  /\ pc' = [pc EXCEPT ![r] = step.pc]
  /\ UNCHANGED <<logs, responses>>

(***************************************************************************)
(* The environment: the bodies clients send, the pages the web serves and  *)
(* the bytes a capture returns.                                            *)
(***************************************************************************)
BaseBody ==
  [url |-> Str("https://example.com"), fullSize |-> Undef, useProxy |-> Undef,
   noAds |-> Undef, width |-> Num(1280), height |-> Num(720),
   zoom |-> Num(100), format |-> Undef, quality |-> Undef, delay |-> Undef,
   css |-> Undef]

\* One field of BaseBody replaced: the edges of every range, wrong types,
\* absent keys, urls that do and do not parse.
OneOff ==
  {<<"url", Str("https://example.com/downloads")>>,
   <<"url", Str("https://site.test/analytics")>>,
   <<"url", Str("https://news.test/")>>,
   <<"url", Str("not a url")>>, <<"url", Str("example.com")>>,
   <<"url", Str("")>>, <<"url", Str("https://")>>,
   <<"url", Num(5)>>, <<"url", Undef>>,
   <<"fullSize", Bool(TRUE)>>, <<"fullSize", Bool(FALSE)>>,
   <<"fullSize", Str("true")>>, <<"fullSize", Null>>,
   <<"useProxy", Bool(TRUE)>>, <<"useProxy", Num(1)>>,
   <<"noAds", Bool(TRUE)>>, <<"noAds", Bool(FALSE)>>, <<"noAds", Str("yes")>>,
   <<"width", Num(99)>>, <<"width", Num(100)>>, <<"width", Num(3840)>>,
   <<"width", Num(3841)>>, <<"width", Str("800")>>, <<"width", Undef>>,
   <<"height", Num(99)>>, <<"height", Num(100)>>, <<"height", Num(2160)>>,
   <<"height", Num(2161)>>, <<"height", Bool(TRUE)>>, <<"height", Undef>>,
   <<"zoom", Num(9)>>, <<"zoom", Num(10)>>, <<"zoom", Num(200)>>,
   <<"zoom", Num(201)>>, <<"zoom", Str("100")>>, <<"zoom", Undef>>,
   <<"format", Str("png")>>, <<"format", Str("jpeg")>>,
   <<"format", Str("pdf")>>, <<"format", Str("gif")>>, <<"format", Num(1)>>,
   <<"quality", Num(-1)>>, <<"quality", Num(0)>>, <<"quality", Num(100)>>,
   <<"quality", Num(101)>>, <<"quality", Str("80")>>,
   <<"delay", Num(-1)>>, <<"delay", Num(0)>>, <<"delay", Num(1)>>,
   <<"delay", Num(10000)>>, <<"delay", Num(10001)>>, <<"delay", Str("5")>>,
   <<"css", Str("body{margin:0}")>>, <<"css", Str("")>>, <<"css", Num(0)>>}

\* Valid bodies that combine options.
Combined ==
  {[BaseBody EXCEPT !.noAds = Bool(TRUE),
                    !.url = Str("https://example.com/downloads")],
   [BaseBody EXCEPT !.noAds = Bool(TRUE),
                    !.url = Str("https://site.test/analytics")],
   [BaseBody EXCEPT !.noAds = Bool(TRUE), !.url = Str("https://news.test/")],
   [BaseBody EXCEPT !.noAds = Bool(TRUE), !.format = Str("pdf"),
                    !.delay = Num(1), !.css = Str("body{margin:0}")],
   [BaseBody EXCEPT !.url = Str("https://static.test/"),
                    !.noAds = Bool(TRUE), !.format = Str("pdf"),
                    !.delay = Num(1), !.css = Str("body{margin:0}")],
   [BaseBody EXCEPT !.format = Str("jpeg"), !.quality = Num(55),
                    !.fullSize = Bool(TRUE)],
   [BaseBody EXCEPT !.format = Str("jpeg"), !.quality = Num(0)],
   [BaseBody EXCEPT !.format = Str("png"), !.quality = Num(30),
                    !.fullSize = Bool(TRUE)],
   [BaseBody EXCEPT !.format = Str("pdf"), !.quality = Num(10),
                    !.fullSize = Bool(TRUE)],
   [BaseBody EXCEPT !.format = Str("jpeg"), !.delay = Num(2),
                    !.css = Str("body{margin:0}")],
   [BaseBody EXCEPT !.css = Str(""), !.delay = Num(3)],
   [BaseBody EXCEPT !.width = Num(99), !.url = Str("not a url")]}

\* Every body of the single-request specification.
WideBodies ==
  {Malformed, Null, Num(5), Str("https://example.com"), Obj(BaseBody)}
    \cup {Obj([BaseBody EXCEPT ![p[1]] = p[2]]) : p \in OneOff}
    \cup {Obj(b) : b \in Combined}

\* The bodies of the concurrent specification.
Bodies ==
  {Malformed,
   Obj([BaseBody EXCEPT !.width = Num(99)]),
   Obj(BaseBody),
   Obj([BaseBody EXCEPT !.url = Str("https://static.test/"),
                        !.noAds = Bool(TRUE), !.format = Str("pdf"),
                        !.delay = Num(1), !.css = Str("body{margin:0}")])}

Resource(type, url) == [resourceType |-> type, url |-> url]

\* The requests the document at url issues once it has loaded.
Site(url) ==
  CASE url = "https://example.com" ->
         {Resource("image", "https://example.com/logo.png"),
          Resource("xhr", "https://example.com/api/analytics")}
    [] url = "https://news.test/" ->
         {Resource("script", "https://news.test/app.js"),
          Resource("media", "https://news.test/clip.mp4"),
          Resource("font", "https://cdn.test/roads.woff"),
          Resource("stylesheet", "https://news.test/style.css")}
    [] OTHER -> {}

\* The navigation request page.goto(url) issues.
MainRequest(url) == Resource("document", url)

\* The bytes page.pdf and page.screenshot return.
PdfBuffers == {<<37, 80, 68, 70, 45>>}

ScreenshotBuffers(options) ==
  IF options.type = "jpeg" THEN {<<255, 216, 255>>}
  ELSE IF options.fullPage THEN {<<137, 80, 78, 71, 13>>}
  ELSE {<<137, 80, 78, 71>>}

NoSession == 0

(***************************************************************************)
(* Initial states.                                                         *)
(***************************************************************************)
InitRest ==
  /\ validated = [r \in Reqs |-> Undef]
  /\ browser = [r \in Reqs |-> NoSession]
  /\ screenshotData = [r \in Reqs |-> <<>>]
  /\ calls = [r \in Reqs |-> <<>>]
  /\ responses = [r \in Reqs |-> <<>>]
  /\ logs = [r \in Reqs |-> <<>>]
  /\ sessions = <<>>
  /\ intercepting = [r \in Reqs |-> FALSE]
  /\ handlers = [r \in Reqs |-> 0]
  /\ paused = [r \in Reqs |-> {}]
  /\ decisions = [r \in Reqs |-> {}]
  /\ passed = [r \in Reqs |-> {}]
  /\ timer = [r \in Reqs |-> -1]
  /\ waited = [r \in Reqs |-> 0]

\* NumReqs requests arrive, in any interleaving.
Init ==
  /\ body \in [Reqs -> Bodies]
  /\ pc = [r \in Reqs |-> "start"]
  /\ InitRest

\* One request arrives; the other slots stay idle.
InitSingle ==
  /\ \E b \in WideBodies : body = [r \in Reqs |-> IF r = 1 THEN b ELSE Undef]
  /\ pc = [r \in Reqs |-> IF r = 1 THEN "start" ELSE "idle"]
  /\ InitRest

(***************************************************************************)
(* The handler, POST (lines 19-106).                                       *)
(***************************************************************************)
\* The session browser.close() of request r closes (line 92).
\* Faulty variant: one module-level browser, overwritten by every launch.
SessionToCloseLatest(r) == Len(sessions)
SessionToClose(r) == browser[r]

\* POST is entered: await req.json() (line 21).
Start(r) ==
  /\ pc[r] = "start"
  /\ pc' = [pc EXCEPT ![r] = "await_json"]
  /\ calls' = [calls EXCEPT ![r] = Append(@, CallEv("json", <<>>))]
  /\ UNCHANGED <<body, validated, browser, screenshotData, responses, logs,
                 sessions, intercepting, handlers, paused, decisions, passed,
                 timer, waited>>

\* req.json() settles; screenshotSchema.parse; puppeteer.launch (21-26).
AfterJson(r) ==
  /\ pc[r] = "await_json"
  /\ IF body[r].t = "malformed"
     THEN /\ Throw(r, <<RetEv("json", FALSE)>>, "json")
          /\ UNCHANGED validated
     ELSE LET res == screenshotSchemaParse(body[r])
          IN  IF res.ok
              THEN /\ validated' = [validated EXCEPT ![r] = res.out]
                   /\ Proceed(r, "json", LaunchStep)
              ELSE /\ Throw(r, <<RetEv("json", TRUE)>>, "parse")
                   /\ UNCHANGED validated
  /\ UNCHANGED <<body, browser, screenshotData, sessions, intercepting,
                 handlers, paused, decisions, passed, timer, waited>>

\* puppeteer.launch settles; browser.newPage (24-28).
AfterLaunch(r) ==
  /\ pc[r] = "await_launch"
  /\ \/ /\ sessions' = Append(sessions, [owner |-> r, open |-> TRUE,
                                         closeCalls |-> 0, closers |-> {}])
        /\ browser' = [browser EXCEPT ![r] = Len(sessions) + 1]
        /\ Proceed(r, "launch", NewPageStep)
     \/ /\ Throw(r, <<RetEv("launch", FALSE)>>, "launch")
        /\ UNCHANGED <<sessions, browser>>
  /\ UNCHANGED <<body, validated, screenshotData, intercepting, handlers,
                 paused, decisions, passed, timer, waited>>

\* browser.newPage settles; page.setViewport (28-35).
AfterNewPage(r) ==
  /\ pc[r] = "await_newPage"
  /\ \/ Proceed(r, "newPage", ViewportStep(validated[r]))
     \/ Throw(r, <<RetEv("newPage", FALSE)>>, "newPage")
  /\ UNCHANGED <<body, validated, browser, screenshotData, sessions,
                 intercepting, handlers, paused, decisions, passed, timer, waited>>

\* page.setViewport settles; with noAds page.setRequestInterception, without
\* page.goto, whose navigation request goes out unintercepted and whose
\* document then issues its own requests (31-39, 57).
AfterSetViewport(r) ==
  /\ pc[r] = "await_setViewport"
  /\ \/ /\ Proceed(r, "setViewport", AfterViewportStep(validated[r]))
        /\ passed' = [passed EXCEPT
                        ![r] = IF validated[r].noAds THEN @
                               ELSE {MainRequest(validated[r].url)}
                                      \cup Site(validated[r].url)]
     \/ /\ Throw(r, <<RetEv("setViewport", FALSE)>>, "setViewport")
        /\ UNCHANGED passed
  /\ UNCHANGED <<body, validated, browser, screenshotData, sessions,
                 intercepting, handlers, paused, decisions, timer, waited>>

\* page.setRequestInterception(true) settles; page.on("request", ...);
\* page.goto, whose navigation request is intercepted (39-40, 57).
AfterSetRequestInterception(r) ==
  /\ pc[r] = "await_setRequestInterception"
  /\ \/ /\ Proceed(r, "setRequestInterception", GotoStep(validated[r]))
        /\ intercepting' = [intercepting EXCEPT ![r] = TRUE]
        /\ handlers' = [handlers EXCEPT ![r] = @ + 1]
        /\ paused' = [paused EXCEPT ![r] = {MainRequest(validated[r].url)}]
     \/ /\ Throw(r, <<RetEv("setRequestInterception", FALSE)>>,
                 "setRequestInterception")
        /\ UNCHANGED <<intercepting, handlers, paused>>
  /\ UNCHANGED <<body, validated, browser, screenshotData, sessions,
                 decisions, passed, timer, waited>>

\* The "request" listener runs for one intercepted request (40-53).  A
\* request takes the first of abort and continue it is given; the document,
\* once continued, issues the requests of its page.
OnRequest(r, q) ==
  /\ q \in paused[r]
  /\ handlers[r] > 0
  /\ LET acts == requestHandler(q)
     IN  /\ decisions' = [decisions EXCEPT
                            ![r] = @ \cup {[request |-> q, acts |-> acts]}]
         /\ paused' = [paused EXCEPT
                         ![r] = (@ \ {q}) \cup
                                IF /\ q.resourceType = "document"
                                   /\ acts # <<>>
                                   /\ acts[1] = "continue"
                                THEN Site(q.url)
                                ELSE {}]
  /\ UNCHANGED <<body, pc, validated, browser, screenshotData, calls,
                 responses, logs, sessions, intercepting, handlers, passed,
                 timer, waited>>

\* The navigation of r has loaded and the network is idle.
NetworkIdle(r) ==
  /\ paused[r] = {}
  /\ \/ MainRequest(validated[r].url) \in passed[r]
     \/ \E d \in decisions[r] :
          /\ d.request = MainRequest(validated[r].url)
          /\ d.acts # <<>>
          /\ d.acts[1] = "continue"
  /\ \A d \in decisions[r] : d.acts # <<>>

\* page.goto settles: resolved once the network is idle, rejected at any
\* time (an aborted navigation request, a network error, the navigation
\* timeout); then page.evaluate, the delay or the capture (57-88).
AfterGoto(r) ==
  /\ pc[r] = "await_goto"
  /\ \/ /\ NetworkIdle(r)
        /\ Proceed(r, "goto", CssStep(validated[r]))
        /\ timer' = [timer EXCEPT ![r] = Armed(CssStep(validated[r]))]
     \/ /\ Throw(r, <<RetEv("goto", FALSE)>>, "goto")
        /\ UNCHANGED timer
  /\ UNCHANGED <<body, validated, browser, screenshotData, sessions,
                 intercepting, handlers, paused, decisions, passed, waited>>

\* page.evaluate settles; the delay or the capture (63-88).
AfterEvaluate(r) ==
  /\ pc[r] = "await_evaluate"
  /\ \/ /\ Proceed(r, "evaluate", DelayStep(validated[r]))
        /\ timer' = [timer EXCEPT ![r] = Armed(DelayStep(validated[r]))]
     \/ /\ Throw(r, <<RetEv("evaluate", FALSE)>>, "evaluate")
        /\ UNCHANGED timer
  /\ UNCHANGED <<body, validated, browser, screenshotData, sessions,
                 intercepting, handlers, paused, decisions, passed, waited>>

\* The timer of setTimeout fires, never before it is due; the capture
\* (72-88).
AfterDelay(r) ==
  /\ pc[r] = "await_delay"
  /\ timer[r] <= 0
  /\ calls' = [calls EXCEPT
                 ![r] = @ \o <<[ev |-> "resolved", op |-> "setTimeout",
                                waited |-> waited[r]],
                               CaptureStep(validated[r]).call>>]
  /\ pc' = [pc EXCEPT ![r] = CaptureStep(validated[r]).pc]
  /\ timer' = [timer EXCEPT ![r] = -1]
  /\ waited' = [waited EXCEPT ![r] = 0]
  /\ UNCHANGED <<logs, responses>>
  /\ UNCHANGED <<body, validated, browser, screenshotData, sessions,
                 intercepting, handlers, paused, decisions, passed>>

\* browser.close() is called on a session.
CloseCalled(r, s) ==
  sessions' = [sessions EXCEPT ![s].closeCalls = @ + 1,
                               ![s].closers = @ \cup {r}]

\* page.pdf settles; Buffer.from; browser.close (78-92).
AfterPdf(r) ==
  /\ pc[r] = "await_pdf"
  /\ \/ \E pdfBuffer \in PdfBuffers :
          /\ screenshotData' = [screenshotData EXCEPT ![r] = pdfBuffer]
          /\ Proceed(r, "pdf", CloseStep)
          /\ CloseCalled(r, SessionToClose(r))
     \/ /\ Throw(r, <<RetEv("pdf", FALSE)>>, "pdf")
        /\ UNCHANGED <<screenshotData, sessions>>
  /\ UNCHANGED <<body, validated, browser, intercepting, handlers, paused,
                 decisions, passed, timer, waited>>

\* page.screenshot settles; Buffer.from; browser.close (84-92).
AfterScreenshot(r) ==
  /\ pc[r] = "await_screenshot"
  /\ \/ \E screenshotBuffer \in ScreenshotBuffers(screenshotOptions(validated[r])) :
          /\ screenshotData' = [screenshotData EXCEPT ![r] = screenshotBuffer]
          /\ Proceed(r, "screenshot", CloseStep)
          /\ CloseCalled(r, SessionToClose(r))
     \/ /\ Throw(r, <<RetEv("screenshot", FALSE)>>, "screenshot")
        /\ UNCHANGED <<screenshotData, sessions>>
  /\ UNCHANGED <<body, validated, browser, intercepting, handlers, paused,
                 decisions, passed, timer, waited>>

\* browser.close settles; the success response (92-101).
AfterClose(r) ==
  /\ pc[r] = "await_close"
  /\ \/ /\ sessions' = [sessions EXCEPT ![SessionToClose(r)].open = FALSE]
        /\ calls' = [calls EXCEPT ![r] = Append(@, RetEv("close", TRUE))]
        /\ responses' = [responses EXCEPT
             ![r] = Append(@, SuccessResponse(
                                dataUri(validated[r].format,
                                        screenshotData[r])))]
        /\ pc' = [pc EXCEPT ![r] = "done"]
        /\ UNCHANGED logs
     \/ /\ Throw(r, <<RetEv("close", FALSE)>>, "close")
        /\ UNCHANGED sessions
  /\ UNCHANGED <<body, validated, browser, screenshotData, intercepting,
                 handlers, paused, decisions, passed, timer, waited>>

\* Time passes while a timer is not yet due: up to the moment the earliest
\* such timer is due, or up to MaxJitter later.
Pending == {r \in Reqs : timer[r] > 0}
Max0(n) == IF n > 0 THEN n ELSE 0

Tick ==
  /\ Pending # {}
  /\ \E r \in Pending, j \in 0..MaxJitter :
       /\ \A o \in Pending : timer[r] <= timer[o]
       /\ timer' = [o \in Reqs |->
                      IF timer[o] >= 0 THEN Max0(timer[o] - (timer[r] + j))
                      ELSE timer[o]]
       /\ waited' = [o \in Reqs |->
                       IF timer[o] >= 0 THEN waited[o] + timer[r] + j
                       ELSE waited[o]]
  /\ UNCHANGED <<body, pc, validated, browser, screenshotData, calls,
                 responses, logs, sessions, intercepting, handlers, paused,
                 decisions, passed>>

Next ==
  \/ \E r \in Reqs : Start(r)
  \/ \E r \in Reqs : AfterJson(r)
  \/ \E r \in Reqs : AfterLaunch(r)
  \/ \E r \in Reqs : AfterNewPage(r)
  \/ \E r \in Reqs : AfterSetViewport(r)
  \/ \E r \in Reqs : AfterSetRequestInterception(r)
  \/ \E r \in Reqs : \E q \in paused[r] : OnRequest(r, q)
  \/ \E r \in Reqs : AfterGoto(r)
  \/ \E r \in Reqs : AfterEvaluate(r)
  \/ \E r \in Reqs : AfterDelay(r)
  \/ \E r \in Reqs : AfterPdf(r)
  \/ \E r \in Reqs : AfterScreenshot(r)
  \/ \E r \in Reqs : AfterClose(r)
  \/ Tick

\* Requests arrive concurrently.
Spec == Init /\ [][Next]_vars

\* One request, over every body of WideBodies.
SpecSingle == InitSingle /\ [][Next]_vars

(***************************************************************************)
(* Reading the state: the calls of a request, and what the claims say of   *)
(* a body, stated apart from the schema.                                   *)
(***************************************************************************)
IsCall(e, op) == e.ev = "call" /\ e.op = op
CallsOf(r, op) == SelectSeq(calls[r], LAMBDA e : IsCall(e, op))
Count(r, op) == Len(CallsOf(r, op))
Resolved(r, op) ==
  \E i \in 1..Len(calls[r]) : calls[r][i].ev = "resolved" /\ calls[r][i].op = op
Parsed(r) == validated[r] # Undef
Succeeded(r) ==
  /\ pc[r] = "done"
  /\ Len(responses[r]) = 1
  /\ responses[r][1].status = 200
  /\ responses[r][1].body.success
Failed(r) ==
  /\ pc[r] = "done"
  /\ responses[r] =
       <<[status |-> 500,
          body |-> [success |-> FALSE,
                    error |-> "Failed to capture screenshot"]]>>
StartsWith(s, prefix) ==
  Len(s) >= Len(prefix) /\ SubSeq(s, 1, Len(prefix)) = prefix

\* The urls of the model that do not parse, and those that contain "ads" or
\* "analytics", listed by hand.
UnparsableUrls == {"not a url", "example.com", "", "https://"}
UrlsNamingAds ==
  {"https://example.com/downloads", "https://site.test/analytics",
   "https://example.com/api/analytics", "https://cdn.test/roads.woff"}

IsNumberOutside(v, lo, hi) == v.t = "number" /\ (v.n < lo \/ v.n > hi)
WrongType(v, type, optional) ==
  IF v.t = "undefined" THEN ~optional ELSE v.t # type

\* A body that fails to parse or that the documented schema rejects.
RejectedByContract(b) ==
  \/ b.t # "object"
  \/ /\ b.t = "object"
     /\ \/ IsNumberOutside(b.o.width, 100, 3840)
        \/ IsNumberOutside(b.o.height, 100, 2160)
        \/ IsNumberOutside(b.o.zoom, 10, 200)
        \/ IsNumberOutside(b.o.quality, 0, 100)
        \/ IsNumberOutside(b.o.delay, 0, 10000)
        \/ b.o.format.t = "string" /\ b.o.format.s \notin {"png", "jpeg", "pdf"}
        \/ WrongType(b.o.url, "string", FALSE)
        \/ WrongType(b.o.width, "number", FALSE)
        \/ WrongType(b.o.height, "number", FALSE)
        \/ WrongType(b.o.zoom, "number", FALSE)
        \/ WrongType(b.o.fullSize, "boolean", TRUE)
        \/ WrongType(b.o.useProxy, "boolean", TRUE)
        \/ WrongType(b.o.noAds, "boolean", TRUE)
        \/ WrongType(b.o.format, "string", TRUE)
        \/ WrongType(b.o.quality, "number", TRUE)
        \/ WrongType(b.o.delay, "number", TRUE)
        \/ WrongType(b.o.css, "string", TRUE)
        \/ b.o.url.t = "string" /\ b.o.url.s \in UnparsableUrls

\* What the request asks for, read off the body with the documented defaults.
Asked(r, key, default) ==
  IF body[r].o[key].t = "undefined" THEN default
  ELSE IF body[r].o[key].t = "string" THEN body[r].o[key].s
  ELSE IF body[r].o[key].t = "number" THEN body[r].o[key].n
  ELSE body[r].o[key].b

(***************************************************************************)
(* C1: whenever puppeteer.launch has succeeded, browser.close is called    *)
(* exactly once before the response is returned, on every path.  The code  *)
(* has no finally: a failure after the launch returns the failure response *)
(* without closing the session.                                            *)
(***************************************************************************)
C1_ReleasedExactlyOnce ==
  \A r \in Reqs :
    (pc[r] = "done" /\ browser[r] # NoSession) =>
      /\ Count(r, "close") = 1
      /\ sessions[browser[r]].closeCalls = 1

(***************************************************************************)
(* C2: a request whose body fails to parse or fails the schema gets the    *)
(* failure response, and puppeteer.launch is never called for it.          *)
(***************************************************************************)
C2_InvalidNeverLaunches ==
  \A r \in Reqs :
    (pc[r] # "idle" /\ RejectedByContract(body[r])) =>
      /\ Count(r, "launch") = 0
      /\ browser[r] = NoSession
      /\ \A s \in 1..Len(sessions) : sessions[s].owner # r
      /\ Len(responses[r]) = 0 \/ Failed(r)
      /\ pc[r] \in {"start", "await_json", "done"}

\* Witness of C2: a width of 3841 is answered with the failure response and no session exists.
C2_Witness ==
  /\ Failed(1)
  /\ body[1].t = "object"
  /\ body[1].o.width = Num(3841)
  /\ sessions = <<>>

(***************************************************************************)
(* C3: a request gets exactly one response and never faults: HTTP 200 with *)
(* {success: true, screenshot: <data URI>} or HTTP 500 with {success:      *)
(* false, error: <message>}, the failure being the same whatever failed.   *)
(***************************************************************************)
C3_OneUniformResponse ==
  \A r \in Reqs :
    /\ pc[r] # "fault"
    /\ Len(responses[r]) = (IF pc[r] = "done" THEN 1 ELSE 0)
    /\ pc[r] = "done" =>
         /\ Succeeded(r) \/ Failed(r)
         /\ Succeeded(r) =>
              /\ logs[r] = <<>>
              /\ DOMAIN responses[r][1].body = {"success", "screenshot"}
              /\ StartsWith(responses[r][1].body.screenshot, "data:")
         /\ Failed(r) <=> Len(logs[r]) = 1
         /\ \A o \in Reqs : (Failed(r) /\ Failed(o)) => responses[r] = responses[o]

\* Witness of C3: one request failed in req.json(), another in browser.close(); the responses are equal.
C3_Witness ==
  /\ Failed(1) /\ Failed(NumReqs)
  /\ logs[1] = <<"json">>
  /\ logs[NumReqs] = <<"close">>
  /\ responses[1] = responses[NumReqs]

(***************************************************************************)
(* C4: the screenshot of a success response starts with the prefix of the  *)
(* requested format: data:image/png;base64, for png and for no format,     *)
(* data:image/jpeg;base64, for jpeg, data:application/pdf;base64, for pdf. *)
(***************************************************************************)
C4_PrefixByFormat ==
  \A r \in Reqs :
    Succeeded(r) =>
      LET uri == responses[r][1].body.screenshot
          format == Asked(r, "format", "png")
      IN  /\ format = "png" => StartsWith(uri, "data:image/png;base64,")
          /\ format = "jpeg" => StartsWith(uri, "data:image/jpeg;base64,")
          /\ format = "pdf" => StartsWith(uri, "data:application/pdf;base64,")
          /\ format \in {"png", "jpeg", "pdf"}
          /\ uri \in {"data:image/png;base64," \o toBase64(screenshotData[r]),
                      "data:image/jpeg;base64," \o toBase64(screenshotData[r]),
                      "data:application/pdf;base64,"
                        \o toBase64(screenshotData[r])}

\* Witness of C4: a pdf request succeeded with the pdf prefix.
C4_Witness ==
  /\ Succeeded(1)
  /\ body[1].o.format = Str("pdf")
  /\ responses[1][1].body.screenshot = "data:application/pdf;base64,JVBERi0="

(***************************************************************************)
(* C5: with noAds every intercepted request gets exactly one decision,     *)
(* abort if and only if its type is image, media or script or its url      *)
(* contains "ads" or "analytics", continue otherwise; without noAds        *)
(* interception is never enabled and the listener decides nothing.         *)
(***************************************************************************)
C5_OneDecisionPerRequest ==
  \A r \in Reqs :
    Parsed(r) =>
      IF Asked(r, "noAds", FALSE)
      THEN /\ \A d \in decisions[r] :
                /\ Len(d.acts) = 1
                /\ d.acts[1] \in {"abort", "continue"}
                /\ d.acts[1] = "abort" <=>
                     \/ d.request.resourceType \in {"image", "media", "script"}
                     \/ d.request.url \in UrlsNamingAds
                /\ d.request \notin paused[r]
           /\ \A d, e \in decisions[r] : d.request = e.request => d = e
           /\ passed[r] = {}
           /\ Resolved(r, "goto") => paused[r] = {}
      ELSE /\ ~intercepting[r]
           /\ handlers[r] = 0
           /\ Count(r, "setRequestInterception") = 0
           /\ decisions[r] = {}
           /\ paused[r] = {}

\* Witness of C5: all five requests of a page were decided, a font under /roads aborted, a stylesheet continued.
C5_Witness ==
  /\ Succeeded(1)
  /\ Asked(1, "noAds", FALSE)
  /\ Cardinality(decisions[1]) = 5
  /\ [request |-> Resource("font", "https://cdn.test/roads.woff"),
      acts |-> <<"abort">>] \in decisions[1]
  /\ [request |-> Resource("stylesheet", "https://news.test/style.css"),
      acts |-> <<"continue">>] \in decisions[1]

(***************************************************************************)
(* C6: format pdf calls page.pdf with A4 and printBackground and never     *)
(* page.screenshot; png and jpeg call page.screenshot once, with fullPage  *)
(* the requested fullSize, type the format, and the requested quality for  *)
(* jpeg and none for png.                                                  *)
(***************************************************************************)
C6_CaptureParameters ==
  \A r \in Reqs :
    Parsed(r) =>
      LET format == Asked(r, "format", "png")
          shots == CallsOf(r, "screenshot")
          pdfs == CallsOf(r, "pdf")
      IN  /\ format = "pdf" =>
               /\ Len(shots) = 0
               /\ Len(pdfs) <= 1
               /\ Succeeded(r) => Len(pdfs) = 1
               /\ \A i \in 1..Len(pdfs) :
                    pdfs[i].args = [format |-> "A4", printBackground |-> TRUE]
          /\ format # "pdf" =>
               /\ Len(pdfs) = 0
               /\ Len(shots) <= 1
               /\ Succeeded(r) => Len(shots) = 1
               /\ \A i \in 1..Len(shots) :
                    /\ shots[i].args.fullPage = Asked(r, "fullSize", FALSE)
                    /\ shots[i].args.type = format
                    /\ format = "jpeg" =>
                         shots[i].args.quality = Num(Asked(r, "quality", 80))
                    /\ format = "png" => shots[i].args.quality = Undef

\* Witness of C6: a full-page jpeg of quality 55 was captured.
C6_Witness ==
  /\ Succeeded(1)
  /\ CallsOf(1, "screenshot") =
       <<[ev |-> "call", op |-> "screenshot",
          args |-> [fullPage |-> TRUE, type |-> "jpeg", quality |-> Num(55)]]>>

(***************************************************************************)
(* C7: the steps of a request run one after the other in the order json    *)
(* and validation, launch, newPage, setViewport, setRequestInterception    *)
(* (noAds), goto, evaluate (css), the delay (delay > 0), the capture,      *)
(* close, response: a call is issued only once the previous one has        *)
(* settled, none is repeated, the first rejection ends the request with    *)
(* the failure response, and the success response follows the resolution   *)
(* of browser.close.  An empty css string counts as no css.                *)
(***************************************************************************)
RECURSIVE CalledOps(_)
CalledOps(log) ==
  IF log = <<>> THEN <<>>
  ELSE IF log[1].ev = "call" THEN <<log[1].op>> \o CalledOps(Tail(log))
  ELSE CalledOps(Tail(log))

StepOrder(r) ==
  IF ~Parsed(r) THEN <<"json">>
  ELSE
    LET v == validated[r]
    IN  <<"json", "launch", "newPage", "setViewport">>
          \o (IF v.noAds THEN <<"setRequestInterception">> ELSE <<>>)
          \o <<"goto">>
          \o (IF v.css.t = "string" /\ v.css.s # "" THEN <<"evaluate">> ELSE <<>>)
          \o (IF v.delay > 0 THEN <<"setTimeout">> ELSE <<>>)
          \o (IF v.format = "pdf" THEN <<"pdf">> ELSE <<"screenshot">>)
          \o <<"close">>

C8_OwnSessionOnly ==
  /\ \A r \in Reqs :
       /\ Count(r, "launch") <= 1
       /\ browser[r] # NoSession =>
            /\ browser[r] \in 1..Len(sessions)
            /\ sessions[browser[r]].owner = r
       /\ \A o \in Reqs \ {r} :
            browser[r] # NoSession => browser[r] # browser[o]
  /\ \A s \in 1..Len(sessions) :
       /\ sessions[s].closers \subseteq {sessions[s].owner}
       /\ sessions[s].closeCalls <= 1
       /\ sessions[s].closeCalls = Count(sessions[s].owner, "close")
       /\ browser[sessions[s].owner] = s
       /\ ~sessions[s].open => Resolved(sessions[s].owner, "close")
  /\ Len(sessions) = Cardinality({r \in Reqs : Resolved(r, "launch")})
  /\ \A r, o \in Reqs :
       (/\ pc[r] = "done" /\ pc[o] = "done"
        /\ body[r] = body[o]
        /\ calls[r] = calls[o]
        /\ screenshotData[r] = screenshotData[o]) =>
         responses[r] = responses[o]

\* Witness of C8: two concurrent requests succeeded, each having closed its own session.
C8_Witness ==
  /\ Succeeded(1) /\ Succeeded(NumReqs)
  /\ browser[1] = Len(sessions) /\ browser[NumReqs] = 1
  /\ \A s \in 1..Len(sessions) : ~sessions[s].open /\ sessions[s].closeCalls = 1

(***************************************************************************)
(* C9: with delay = N > 0 the capture is called only after a timer of N ms *)
(* armed when the navigation (and the css injection) completed has run at  *)
(* least N ms; with delay = 0 no timer is armed and the capture follows    *)
(* the navigation or the injection directly.                               *)
(***************************************************************************)
IsCapture(e) == e.ev = "call" /\ e.op \in {"pdf", "screenshot"}
IsLoaded(e) == e.ev = "resolved" /\ e.op \in {"goto", "evaluate"}

C9_DelayBeforeCapture ==
  \A r \in Reqs :
    Parsed(r) =>
      LET log == calls[r]
          N == Asked(r, "delay", 0)
      IN  /\ N > 0 =>
               /\ \A i \in 1..Len(log) :
                    IsCapture(log[i]) =>
                      /\ i > 3
                      /\ log[i-1].ev = "resolved" /\ log[i-1].op = "setTimeout"
                      /\ log[i-1].waited >= N
                      /\ log[i-2] = [ev |-> "call", op |-> "setTimeout",
                                     args |-> [ms |-> N]]
                      /\ IsLoaded(log[i-3])
               /\ pc[r] = "await_delay" =>
                    /\ timer[r] >= 0
                    /\ timer[r] + waited[r] >= N
          /\ N = 0 =>
               /\ Count(r, "setTimeout") = 0
               /\ pc[r] # "await_delay"
               /\ \A i \in 1..Len(log) :
                    IsCapture(log[i]) => i > 1 /\ IsLoaded(log[i-1])

\* Witness of C9: a request with delay 2 succeeded after its timer ran 2 ms.
C9_Witness ==
  /\ Succeeded(1)
  /\ Asked(1, "delay", 0) = 2
  /\ \E i \in 1..Len(calls[1]) :
       /\ calls[1][i].ev = "resolved"
       /\ calls[1][i].op = "setTimeout"
       /\ calls[1][i].waited = 2

(***************************************************************************)
(* C10: with noAds the filter also decides the navigation request of the   *)
(* requested url: a url containing "ads" or "analytics" has its document   *)
(* request aborted, page.goto never resolves, and the request ends with    *)
(* the HTTP 500 failure response, never with a success response.           *)
(***************************************************************************)
C10_OwnUrlFiltered ==
  \A r \in Reqs :
    (/\ Parsed(r)
     /\ Asked(r, "noAds", FALSE)
     /\ Asked(r, "url", "") \in UrlsNamingAds) =>
      /\ \A d \in decisions[r] :
           /\ d.request = [resourceType |-> "document", url |-> Asked(r, "url", "")]
           /\ d.acts = <<"abort">>
      /\ ~Resolved(r, "goto")
      /\ Count(r, "pdf") + Count(r, "screenshot") = 0
      /\ ~Succeeded(r)
      /\ pc[r] = "done" => Failed(r)

\* Witness of C10: the request for /downloads with noAds failed in page.goto after its document request was aborted.
C10_Witness ==
  /\ Failed(1)
  /\ Parsed(1)
  /\ Asked(1, "noAds", FALSE)
  /\ Asked(1, "url", "") = "https://example.com/downloads"
  /\ decisions[1] =
       {[request |-> Resource("document", "https://example.com/downloads"),
         acts |-> <<"abort">>]}
  /\ logs[1] = <<"goto">>

====
